---- MODULE Spec2Model ----
(***************************************************************************)
(* Ingestion pipeline of parse_data.py: main() connects over SSH, lists    *)
(* the remote directory, fetches and parses each JSON file into the        *)
(* Lab / DataTimestamp / NodeData hierarchy of optical_signal_data.py,     *)
(* and closes the client.                                                  *)
(*                                                                         *)
(* Python values are modelled as follows.                                  *)
(*   dict (JSON object, insertion ordered)  sequence of <<key, value>>     *)
(*   dict passed as **kwargs               function over its key set       *)
(*   list                                   sequence                       *)
(*   set                                    set                            *)
(*   JSON scalar                            [kind, val] record             *)
(*   str holding a timestamp                sequence of one-character      *)
(*                                          strings                        *)
(***************************************************************************)
EXTENDS Integers, Sequences, FiniteSets, TLC

\* ------------------------------------------------------------------ bounds
\* Longest directory listing the remote host returns.
MaxFiles == 4

\* parse_data.py:25 sets BREAK_LEVEL = 5000; the loop only compares the
\* counter against it, so the model runs with a ceiling small enough to be hit.
BREAK_LEVEL == 2

\* ------------------------------------------------------------ JSON values
Num(v) == [kind |-> "num", val |-> v]
Null == [kind |-> "null", val |-> 0]

Fields ==
    {"power", "ber", "snr", "dgd", "qfactor", "chromatic_dispersion", "carrier_offset"}

RangeKeys == {"low", "median", "high"}

\* ------------------------------------------------- optical_signal_data.py
\* Instantaneous(**d): Python binds the keyword arguments; a missing or an
\* unexpected key raises TypeError.  The values are stored as they are.
InstantaneousOK(d) == DOMAIN d = Fields
Instantaneous(d) == [f \in Fields |-> d[f]]

\* RangeData(**d)
RangeDataOK(d) == DOMAIN d = RangeKeys
RangeData(d) == [low |-> d["low"], median |-> d["median"], high |-> d["high"]]

\* FifteenMinuteBin(**d): seven RangeData(**d[f])
FifteenMinuteBinOK(d) == /\ DOMAIN d = Fields
                         /\ \A f \in Fields : RangeDataOK(d[f])
FifteenMinuteBin(d) == [f \in Fields |-> RangeData(d[f])]

Measurements(instantaneous, fifteen_minute_bin) ==
    [instantaneous |-> instantaneous, fifteen_minute_bin |-> fifteen_minute_bin]

NodeData(node_name, measurements) ==
    [node_name |-> node_name, measurements |-> measurements]

\* ------------------------------------------- float(timestamp), line 28
\* A string is the tuple of its code points: "10" is <<49, 48>>.  float()
\* first turns every decimal digit and every white space of Unicode into
\* its ASCII form, then strips white space, admits "_" between two digits,
\* and parses an optional sign followed by a decimal literal with optional
\* fraction and exponent, or by inf / infinity / nan in any letter case;
\* anything else raises ValueError.

\* The digit zero of every script (Unicode 14.0, the database of the
\* interpreter); the nine code points after each are its digits 1 to 9.
DecimalZeros ==
    {48, 1632, 1776, 1984, 2406, 2534, 2662, 2790, 2918, 3046, 3174, 3302,
     3430, 3558, 3664, 3792, 3872, 4160, 4240, 6112, 6160, 6470, 6608, 6784,
     6800, 6992, 7088, 7232, 7248, 42528, 43216, 43264, 43472, 43504, 43600,
     44016, 65296, 66720, 68912, 69734, 69872, 69942, 70096, 70384, 70736,
     70864, 71248, 71360, 71472, 71904, 72016, 72784, 73040, 73120, 92768,
     92864, 93008, 120782, 120792, 120802, 120812, 120822, 123200, 123632,
     125264, 130032}

\* Py_UNICODE_ISSPACE
UnicodeSpace ==
    (9..13) \cup (28..32) \cup {133, 160, 5760} \cup (8192..8202)
        \cup {8232, 8233, 8239, 8287, 12288}

\* Py_UNICODE_TODECIMAL: the value of a decimal digit, -1 for any other
\* character.
ToDecimal(c) ==
    IF \E z \in DecimalZeros : c \in z..(z + 9)
    THEN c - (CHOOSE z \in DecimalZeros : c \in z..(z + 9))
    ELSE 0 - 1

\* The ASCII form of a character: itself, " " (32) for white space, the
\* digit from "0" (48) on for a decimal digit, "?" (63) for any other.
ToASCII(c) ==
    IF c < 127 THEN c
    ELSE IF c \in UnicodeSpace THEN 32
    ELSE IF ToDecimal(c) < 0 THEN 63
    ELSE 48 + ToDecimal(c)

First(S) == CHOOSE i \in S : \A j \in S : i <= j

\* _PyUnicode_TransformDecimalAndSpaceToASCII: an ASCII string as it is;
\* any other ends at the first character that has no ASCII form, which
\* becomes "?".
Unknown(s) == {i \in 1..Len(s) : s[i] >= 127 /\ ToASCII(s[i]) = 63}
TransformDecimalAndSpaceToASCII(s) ==
    IF \A i \in 1..Len(s) : s[i] < 128 THEN s
    ELSE <<>> \o [i \in 1..(IF Unknown(s) = {} THEN Len(s)
                            ELSE First(Unknown(s))) |-> ToASCII(s[i])]

Digits == 48..57
DigitVal(c) == c - 48

\* Py_ISSPACE
Whitespace == (9..13) \cup {32}

\* The text from its first to its last character that is no white space.
Leading(s) == CHOOSE n \in 0..Len(s) :
    /\ \A i \in 1..n : s[i] \in Whitespace
    /\ n < Len(s) => s[n + 1] \notin Whitespace
Trailing(s) == CHOOSE n \in 0..Len(s) :
    /\ \A i \in (Len(s) - n + 1)..Len(s) : s[i] \in Whitespace
    /\ n < Len(s) => s[Len(s) - n] \notin Whitespace
strip(s) ==
    IF Leading(s) = Len(s) THEN <<>>
    ELSE SubSeq(s, Leading(s) + 1, Len(s) - Trailing(s))

\* "_" is 95, "+" 43, "-" 45, "." 46, "e" 101 and "E" 69.
UnderscoresOK(s) ==
    \A i \in 1..Len(s) :
        s[i] = 95 => /\ i > 1
                     /\ i < Len(s)
                     /\ s[i - 1] \in Digits
                     /\ s[i + 1] \in Digits

NotUnderscore(c) == c # 95

Signed(s) == Len(s) > 0 /\ s[1] \in {43, 45}
Unsigned(s) == IF Signed(s) THEN Tail(s) ELSE s

\* Py_TOLOWER
Lower(c) == IF c \in 65..90 THEN c + 32 ELSE c
LowerCase(s) == [i \in 1..Len(s) |-> Lower(s[i])]

\* "inf", "infinity" and "nan"
Inf == {<<105, 110, 102>>, <<105, 110, 102, 105, 110, 105, 116, 121>>}
NaN == <<110, 97, 110>>

AllDigits(s) == \A i \in 1..Len(s) : s[i] \in Digits

\* The text before and after the first of the given positions.
Before(s, at) == IF at = {} THEN s ELSE SubSeq(s, 1, First(at) - 1)
After(s, at) == IF at = {} THEN <<>> ELSE SubSeq(s, First(at) + 1, Len(s))

\* Mantissa and exponent of a literal: split at the first "e" or "E".
ExpAt(s) == {i \in 1..Len(s) : s[i] \in {101, 69}}
Mantissa(s) == Before(s, ExpAt(s))
Exponent(s) == After(s, ExpAt(s))

\* Integer and fraction digits of a mantissa: split at the first ".".
DotAt(m) == {i \in 1..Len(m) : m[i] = 46}
IntPart(m) == Before(m, DotAt(m))
FracPart(m) == After(m, DotAt(m))

\* The parts float() reads: the stripped text t; of the literal u, which is
\* t with underscores and sign off, the lower case, the digits before and
\* after the point, and the exponent field with its sign.
Split(t, u) ==
    [text |-> t,
     neg |-> Len(t) > 0 /\ t[1] = 45,
     word |-> LowerCase(u),
     int |-> IntPart(Mantissa(u)),
     frac |-> FracPart(Mantissa(u)),
     hasExp |-> ExpAt(u) # {},
     exp |-> Unsigned(Exponent(u)),
     expNeg |-> Len(Exponent(u)) > 0 /\ Exponent(u)[1] = 45]
Literal(t) == Split(t, Unsigned(SelectSeq(t, NotUnderscore)))
Parts(s) == Literal(strip(TransformDecimalAndSpaceToASCII(s)))

DecimalOK(p) ==
    /\ AllDigits(p.int)
    /\ AllDigits(p.frac)
    /\ Len(p.int) + Len(p.frac) > 0
    /\ p.hasExp => Len(p.exp) > 0 /\ AllDigits(p.exp)

Accepted(p) ==
    /\ UnderscoresOK(p.text)
    /\ \/ p.word \in Inf \cup {NaN}
       \/ DecimalOK(p)

\* float(s) returns (TRUE) or raises ValueError (FALSE).
FloatOK(s) == Accepted(Parts(s))

\* Value of a digit string as a machine integer (short strings only).
RECURSIVE NatOf(_)
NatOf(d) ==
    IF Len(d) = 0 THEN 0
    ELSE 10 * NatOf(SubSeq(d, 1, Len(d) - 1)) + d[Len(d)]

\* -- Exact decimals.  Numbers too wide for a machine integer are tuples of
\* digits 0..9 without leading zeros (the empty tuple for zero).  A
\* non-negative decimal is its digits and the number of them after the
\* point: all = <<1, 5>>, fl = 1 is 1.5.
DigitsOf(s) == <<>> \o [i \in 1..Len(s) |-> DigitVal(s[i])]

StripZeros(d) ==
    IF \A i \in 1..Len(d) : d[i] = 0 THEN <<>>
    ELSE SubSeq(d, First({i \in 1..Len(d) : d[i] # 0}), Len(d))

Zeros(n) == [i \in 1..n |-> 0]
Zero == [all |-> <<>>, fl |-> 0]

WholeOf(a) == StripZeros(SubSeq(a.all, 1, Len(a.all) - a.fl))
FracOf(a) == SubSeq(a.all, Len(a.all) - a.fl + 1, Len(a.all))
IsZero(a) == \A i \in 1..Len(a.all) : a.all[i] = 0
IsWhole(a) == \A i \in (Len(a.all) - a.fl + 1)..Len(a.all) : a.all[i] = 0

TwiceDigits(d) ==
    (IF Len(d) > 0 /\ d[1] >= 5 THEN <<1>> ELSE <<>>)
    \o [i \in 1..Len(d) |->
           ((2 * d[i]) % 10) + (IF i < Len(d) /\ d[i + 1] >= 5 THEN 1 ELSE 0)]
Twice(a) == [all |-> TwiceDigits(a.all), fl |-> a.fl]

\* Half of a digit string that ends in 0.
HalfDigits(d) ==
    <<>> \o [i \in 1..Len(d) |->
                (d[i] \div 2) + (IF i > 1 /\ d[i - 1] % 2 = 1 THEN 5 ELSE 0)]
Halve(a) == [all |-> HalfDigits(a.all \o <<0>>), fl |-> a.fl + 1]

RECURSIVE Inc(_)
Inc(d) ==
    IF Len(d) = 0 THEN <<1>>
    ELSE IF d[Len(d)] = 9 THEN Inc(SubSeq(d, 1, Len(d) - 1)) \o <<0>>
    ELSE SubSeq(d, 1, Len(d) - 1) \o <<d[Len(d)] + 1>>

DigitsLeq(a, b) ==
    \/ Len(a) < Len(b)
    \/ /\ Len(a) = Len(b)
       /\ \/ a = b
          \/ \E i \in 1..Len(a) : /\ SubSeq(a, 1, i - 1) = SubSeq(b, 1, i - 1)
                                  /\ a[i] < b[i]

\* Nearest whole number to w.f, a half going to the even neighbour: round()
\* of C with the correction of _PyTime_Round, and the rounding of IEEE 754.
ToNearest(w, f) ==
    IF /\ Len(f) > 0
       /\ \/ f[1] > 5
          \/ /\ f[1] = 5
             /\ \/ \E i \in 2..Len(f) : f[i] # 0
                \/ Len(w) > 0 /\ w[Len(w)] % 2 = 1
    THEN Inc(w) ELSE w
RoundHalfEven(a) == ToNearest(WholeOf(a), FracOf(a))

\* -- The double nearest to a decimal (correctly rounded, as float() reads
\* it and as the product of two doubles is stored).  A double is a whole
\* number below 2^53 times a power of two: scale by two (by sixteen while
\* far off) until the decimal is such a whole number, or until its whole
\* part has 53 bits and is rounded to one, and scale back.
TwoTo49 == <<5, 6, 2, 9, 4, 9, 9, 5, 3, 4, 2, 1, 3, 1, 2>>
TwoTo52 == <<4, 5, 0, 3, 5, 9, 9, 6, 2, 7, 3, 7, 0, 4, 9, 6>>
TwoTo53 == <<9, 0, 0, 7, 1, 9, 9, 2, 5, 4, 7, 4, 0, 9, 9, 2>>

Times16(a) == Twice(Twice(Twice(Twice(a))))
Over16(a) == Halve(Halve(Halve(Halve(a))))

\* a / 2^s; zero stays zero.
RECURSIVE Unscale(_, _)
Unscale(a, s) ==
    IF IsZero(a) \/ s = 0 THEN a
    ELSE IF s >= 4 THEN Unscale(Over16(a), s - 4)
    ELSE IF s > 0 THEN Unscale(Halve(a), s - 1)
    ELSE Unscale(Twice(a), s + 1)

\* The whole number n and the scale s with n / 2^s the double nearest to
\* a / 2^s; w is the whole part of a.
RECURSIVE Nearest(_, _)
Scaled(a, s, w) ==
    IF DigitsLeq(TwoTo53, w) THEN Nearest(Halve(a), s - 1)
    ELSE IF IsWhole(a) THEN [n |-> a, s |-> s]
    ELSE IF ~DigitsLeq(TwoTo49, w) THEN Nearest(Times16(a), s + 4)
    ELSE IF ~DigitsLeq(TwoTo52, w) THEN Nearest(Twice(a), s + 1)
    ELSE [n |-> [all |-> RoundHalfEven(a), fl |-> 0], s |-> s]
Nearest(a, s) == Scaled(a, s, WholeOf(a))

Back(r) == Unscale(r.n, r.s)
ToDouble(a) == Back(Nearest(a, 0))

\* Decimal exponents between which the model holds the double exactly.
\* Above, the double is past 2^63 (or is inf); below, it is nearer to zero
\* than any microsecond: the program tells neither apart from its class.
MaxPoint == 19
MinPoint == 0 - 20

\* Value of the exponent field, leading zeros off: one of more than nine
\* digits counts as MAX_ABS_EXP (_Py_dg_strtod).
MAX_ABS_EXP == 1100000000
ExpValue(d) == IF Len(d) > 9 THEN MAX_ABS_EXP ELSE NatOf(d)
ExpOf(p) ==
    IF ~p.hasExp THEN 0
    ELSE IF p.expNeg THEN 0 - ExpValue(StripZeros(DigitsOf(p.exp)))
    ELSE ExpValue(StripZeros(DigitsOf(p.exp)))

\* The decimal 0.d1d2...dn * 10^point.
Decimal(d, point) ==
    IF point >= Len(d) THEN [all |-> d \o Zeros(point - Len(d)), fl |-> 0]
    ELSE IF point >= 0 THEN [all |-> d, fl |-> Len(d) - point]
    ELSE [all |-> Zeros(0 - point) \o d, fl |-> Len(d) - point]

\* The float of the word, or of the digits d (no leading zeros) with the
\* point after the first "point" of them.
Classified(word, neg, d, point) ==
    IF word = NaN THEN [kind |-> "nan", neg |-> FALSE, mag |-> Zero]
    ELSE IF word \in Inf THEN [kind |-> "inf", neg |-> neg, mag |-> Zero]
    ELSE IF Len(d) = 0 THEN [kind |-> "num", neg |-> neg, mag |-> Zero]
    ELSE IF point > MaxPoint THEN [kind |-> "big", neg |-> neg, mag |-> Zero]
    ELSE IF point < MinPoint THEN [kind |-> "tiny", neg |-> neg, mag |-> Zero]
    ELSE [kind |-> "num", neg |-> neg, mag |-> ToDouble(Decimal(d, point))]

Pointed(p, d, e) == Classified(p.word, p.neg, d, e + Len(d) - Len(p.frac))
Valued(p) == Pointed(p, StripZeros(DigitsOf(p.int \o p.frac)), ExpOf(p))

\* float(s) for a string it accepts: nan, inf, "big", "tiny", or the double
\* as an exact decimal with its sign.
Float(s) == Valued(Parts(s))

\* ----------------------------- datetime.fromtimestamp(float), line 28
\* _PyTime_DoubleToDenominator: modf, the fraction f times 10^6 as a
\* double, rounded half to even.
Shifted(f, n) ==
    [all |-> <<>> \o [i \in 1..n |-> IF i <= Len(f) THEN f[i] ELSE 0],
     fl |-> n - 6]
MicrosOf(f) ==
    NatOf(RoundHalfEven(
        ToDouble(Shifted(f, IF Len(f) > 6 THEN Len(f) ELSE 6))))
Micros(a) == MicrosOf(FracOf(a))

\* The magnitude in whole seconds and microseconds, the carry into the
\* seconds included.
Carried(w, us) ==
    IF us = 1000000 THEN [whole |-> Inc(w), micro |-> 0]
    ELSE [whole |-> w, micro |-> us]
Rounded(x) ==
    IF x.kind = "tiny" THEN [whole |-> <<>>, micro |-> 0]
    ELSE Carried(WholeOf(x.mag), Micros(x.mag))

\* The second a negative time falls in, as a magnitude (floor).
Floor(r) == IF r.micro > 0 THEN Inc(r.whole) ELSE r.whole

\* 2^63: time_t holds [-2^63, 2^63).
TimeTBound == <<9, 2, 2, 3, 3, 7, 2, 0, 3, 6, 8, 5, 4, 7, 7, 5, 8, 0, 8>>
\* Last second whose year localtime() can hold, and the first one below
\* zero as a magnitude (glibc, 64-bit time_t); past them localtime()
\* fails with EOVERFLOW.
MaxLocaltime == <<6, 7, 7, 6, 8, 0, 3, 6, 1, 9, 1, 6, 7, 6, 7, 9, 9>>
MinLocaltime == <<6, 7, 7, 6, 8, 0, 4, 0, 6, 0, 9, 7, 4, 0, 8, 0, 0>>
\* Seconds of 9999-12-31 23:59:59 and, below zero, of 0001-01-02 00:00:00
\* (UTC): the range in which fromtimestamp builds a datetime.
MaxSeconds == <<2, 5, 3, 4, 0, 2, 3, 0, 0, 7, 9, 9>>
MinSeconds == <<6, 2, 1, 3, 5, 5, 1, 0, 4, 0, 0>>

\* The exception for a time of w whole seconds after the epoch, or for
\* one in the w-th second before it.
ErrorAfter(w) ==
    IF DigitsLeq(w, MaxSeconds) THEN ""
    ELSE IF DigitsLeq(w, MaxLocaltime) THEN "ValueError"
    ELSE IF w # TimeTBound /\ DigitsLeq(w, TimeTBound) THEN "OSError"
    ELSE "OverflowError"
ErrorBefore(w) ==
    IF DigitsLeq(w, MinSeconds) THEN ""
    ELSE IF DigitsLeq(w, MinLocaltime) THEN "ValueError"
    ELSE IF DigitsLeq(w, TimeTBound) THEN "OSError"
    ELSE "OverflowError"

\* The exception datetime.fromtimestamp(x) raises, "" for none.
fromtimestampError(x) ==
    IF x.kind = "nan" THEN "ValueError"
    ELSE IF x.kind \in {"inf", "big"} THEN "OverflowError"
    ELSE IF x.neg THEN ErrorBefore(Floor(Rounded(x)))
    ELSE ErrorAfter(Rounded(x).whole)

\* The datetime, as the epoch time it denotes: sign, whole seconds (a
\* tuple of digits, <<0>> for zero) and microseconds of the magnitude.
Instant(neg, r) ==
    [neg |-> neg /\ (r.whole # <<>> \/ r.micro # 0),
     whole |-> IF r.whole = <<>> THEN <<0>> ELSE r.whole,
     micro |-> r.micro]
fromtimestamp(x) == Instant(x.neg, Rounded(x))

\* The exception DataTimestamp(timestamp, .) raises, "" for none.
DataTimestampError(timestamp) ==
    IF ~FloatOK(timestamp) THEN "ValueError"
    ELSE fromtimestampError(Float(timestamp))

\* DataTimestamp(timestamp, node_data_list)
DataTimestamp(timestamp, node_data_list) ==
    [timestamp |-> fromtimestamp(Float(timestamp)),
     node_data_list |-> node_data_list]

\* Lab(lab_name)
Lab(lab_name) == [lab_name |-> lab_name, timestamp_list |-> <<>>]

\* Mutant: the snapshot is inserted at the front of the list.
add_timestampFront(lab_obj, timestamp) ==
    [lab_obj EXCEPT !.timestamp_list = <<timestamp>> \o @]

\* Lab.add_timestamp
add_timestamp(lab_obj, timestamp) ==
    [lab_obj EXCEPT !.timestamp_list = Append(@, timestamp)]

\* ---------------------------------------------------- parse_data.py: merge
\* The three containers parse_data builds, plus the exception (if any) that
\* is propagating out of the loop body.
EmptyModel ==
    [optical_signal_data_list |-> <<>>, lab_names |-> {}, node_names |-> <<>>,
     err |-> ""]

Raise(m, e) == [m EXCEPT !.err = e]

\* list(d.keys())[0] on an insertion-ordered dict
FirstKey(d) == d[1][1]

\* d[k] for the first key
FirstValue(d) == d[1][2]

\* "Add the node name to the dict"
RegisterNode(registry, lab_name, node_name) ==
    IF lab_name \in DOMAIN registry
    THEN [registry EXCEPT ![lab_name] = @ \cup {node_name}]
    ELSE (lab_name :> {node_name}) @@ registry

\* "for node in nodes": returns the node registry, the NodeData list built
\* so far and the exception raised, if any.
RECURSIVE NodeLoop(_, _, _, _, _)
NodeLoop(nodes, i, lab_name, registry, node_data_list) ==
    IF i > Len(nodes)
    THEN [node_names |-> registry, node_data_list |-> node_data_list, err |-> ""]
    ELSE LET node == nodes[i] IN
      IF Len(node) = 0
      THEN [node_names |-> registry, node_data_list |-> node_data_list,
            err |-> "IndexError"]
      ELSE LET node_name == FirstKey(node)
               registered == RegisterNode(registry, lab_name, node_name)
               measurements_data == FirstValue(node)
               fail(e) == [node_names |-> registered,
                           node_data_list |-> node_data_list, err |-> e]
           IN IF "instantaneous" \notin DOMAIN measurements_data
              THEN fail("KeyError")
              ELSE IF "fifteen_minute_bin" \notin DOMAIN measurements_data
              THEN fail("KeyError")
              ELSE IF ~InstantaneousOK(measurements_data["instantaneous"])
              THEN fail("TypeError")
              ELSE IF ~FifteenMinuteBinOK(measurements_data["fifteen_minute_bin"])
              THEN fail("TypeError")
              ELSE NodeLoop(nodes, i + 1, lab_name, registered,
                     Append(node_data_list,
                       NodeData(node_name,
                         Measurements(
                           Instantaneous(measurements_data["instantaneous"]),
                           FifteenMinuteBin(measurements_data["fifteen_minute_bin"])))))

\* "Lab object already exists for this lab": every Lab of that name in the
\* list gets the snapshot.
AddToExisting(lab_objs, lab_name, data_timestamp) ==
    [x \in 1..Len(lab_objs) |->
        IF lab_objs[x].lab_name = lab_name
        THEN add_timestamp(lab_objs[x], data_timestamp)
        ELSE lab_objs[x]]

\* "Lab object needs to be created"
AddNewLab(lab_objs, lab_name, data_timestamp) ==
    Append(lab_objs, add_timestamp(Lab(lab_name), data_timestamp))

\* Mutant: the "already exists" test is dropped.
MergeSnapshotAlwaysNew(m, lab_name, data_timestamp) ==
    [m EXCEPT !.lab_names = @ \cup {lab_name},
              !.optical_signal_data_list =
                 AddNewLab(@, lab_name, data_timestamp)]

\* Lines 171-192: merge one DataTimestamp into the model.
MergeSnapshot(m, lab_name, data_timestamp) ==
    IF lab_name \in m.lab_names
    THEN [m EXCEPT !.optical_signal_data_list =
                      AddToExisting(@, lab_name, data_timestamp)]
    ELSE [m EXCEPT !.lab_names = @ \cup {lab_name},
                   !.optical_signal_data_list =
                      AddNewLab(@, lab_name, data_timestamp)]

\* Body of "for lab in labs" for one lab entry.
LabBody(m, timestamp, lab) ==
    IF Len(lab) = 0 THEN Raise(m, "IndexError")
    ELSE LET lab_name == FirstKey(lab)
             nodes == FirstValue(lab)
             r == NodeLoop(nodes, 1, lab_name, m.node_names, <<>>)
             m1 == [m EXCEPT !.node_names = r.node_names]
             e == DataTimestampError(timestamp)
         IN IF r.err # "" THEN Raise(m1, r.err)
            ELSE IF e # "" THEN Raise(m1, e)
            ELSE MergeSnapshot(m1, lab_name,
                               DataTimestamp(timestamp, r.node_data_list))

RECURSIVE LabLoop(_, _, _, _)
LabLoop(m, timestamp, labs, j) ==
    IF j > Len(labs) \/ m.err # "" THEN m
    ELSE LabLoop(LabBody(m, timestamp, labs[j]), timestamp, labs, j + 1)

\* "for timestamp, labs in data.items()"
RECURSIVE ItemLoop(_, _, _)
ItemLoop(m, data, k) ==
    IF k > Len(data) \/ m.err # "" THEN m
    ELSE ItemLoop(LabLoop(m, data[k][1], data[k][2], 1), data, k + 1)

\* ------------------------------------------------------- remote file bodies
\* What "cat <file>" can deliver.  raw says what the bytes are; doc is the
\* value json.loads returns when raw = "json" (a mapping, as a sequence of
\* <<timestamp, labs>> items in document order).
InstData(v) == [f \in Fields |-> Num(v)]
BinData(v) == [f \in Fields |-> [k \in RangeKeys |-> Num(v)]]

MeasFull(v) == [instantaneous |-> InstData(v), fifteen_minute_bin |-> BinData(v)]
MeasNoInst == [fifteen_minute_bin |-> BinData(1)]
MeasNoBin == [instantaneous |-> InstData(1)]
MeasInstShort ==
    [instantaneous |-> [f \in Fields \ {"qfactor"} |-> Num(1)],
     fifteen_minute_bin |-> BinData(1)]
MeasBinShort ==
    [instantaneous |-> InstData(1),
     fifteen_minute_bin |->
        [f \in Fields |-> IF f = "snr" THEN [k \in {"low", "high"} |-> Num(1)]
                          ELSE [k \in RangeKeys |-> Num(1)]]]
MeasNullPower ==
    [instantaneous |-> [f \in Fields |-> IF f = "power" THEN Null ELSE Num(3)],
     fifteen_minute_bin |-> BinData(3)]

NodeEntry(name, meas) == << <<name, meas>> >>
LabEntry(name, nodes) == << <<name, nodes>> >>

\* Timestamp keys: "10", "20", "x", "1.5", " \v-1_0e-1" followed by a
\* no-break space, "inf", and OGHAM SPACE MARK followed by the
\* Extended Arabic-Indic digits three and zero.
T10 == <<49, 48>>
T20 == <<50, 48>>
TBad == <<120>>
TFrac == <<49, 46, 53>>
TSigned == <<32, 11, 45, 49, 95, 48, 101, 45, 49, 160>>
TInf == <<105, 110, 102>>
TScript == <<5760, 1779, 1776>>

Json(doc) == [raw |-> "json", doc |-> doc]
NotJsonDoc(raw) == [raw |-> raw, doc |-> <<>>]

\* {"10": [{"L1": [{"A": ..}, {"B": ..}]}]}
DocL1AB ==
    << <<T10, <<LabEntry("L1", <<NodeEntry("A", MeasFull(1)),
                                 NodeEntry("B", MeasFull(2))>>)>> >> >>
\* {"20": [{"L1": [{"A": ..}, {"C": ..}]}]}
DocL1AC ==
    << <<T20, <<LabEntry("L1", <<NodeEntry("A", MeasFull(2)),
                                 NodeEntry("C", MeasFull(1))>>)>> >> >>
\* {"20": [{"L2": [{"A": ..}]}], "10": [{"L1": [{"B": ..}]}, {"L2": [{"A": ..}]}]}
DocTwoStamps ==
    << <<T20, <<LabEntry("L2", <<NodeEntry("A", MeasFull(1))>>)>> >>,
       <<T10, <<LabEntry("L1", <<NodeEntry("B", MeasFull(1))>>),
                LabEntry("L2", <<NodeEntry("A", MeasFull(2))>>)>> >> >>
\* {"10": [{"L2": []}]}
DocNoNodes == << <<T10, <<LabEntry("L2", <<>>)>> >> >>
\* {"10": [{"L1": [{"A": {instantaneous: {power: null, ..}, ..}}]}]}
DocNullPower ==
    << <<T10, <<LabEntry("L1", <<NodeEntry("A", MeasNullPower)>>)>> >> >>
\* {"10": [{"L1": [{"A": ..}], "L2": [{"B": ..}]}]}: a lab entry with two keys
DocTwoKeys ==
    << <<T10, << << <<"L1", <<NodeEntry("A", MeasFull(1))>> >>,
                    <<"L2", <<NodeEntry("B", MeasFull(1))>> >> >> >> >> >>
\* {"10": [{"L1": [{"A": .., "B": ..}]}]}: a node entry with two keys
DocTwoKeyNode ==
    << <<T10, <<LabEntry("L1", << << <<"A", MeasFull(1)>>,
                                    <<"B", MeasFull(2)>> >> >>)>> >> >>
\* {"10": [{"L1": [{"A": ..}]}, {"L2": [{"B": ..}, {"C": {no instantaneous}}]}]}
DocNoInst ==
    << <<T10, <<LabEntry("L1", <<NodeEntry("A", MeasFull(1))>>),
                LabEntry("L2", <<NodeEntry("B", MeasFull(1)),
                                 NodeEntry("C", MeasNoInst)>>)>> >> >>
\* {"10": [{"L1": [{"A": {no fifteen_minute_bin}}]}]}
DocNoBin == << <<T10, <<LabEntry("L1", <<NodeEntry("A", MeasNoBin)>>)>> >> >>
\* instantaneous without "qfactor"
DocInstShort ==
    << <<T10, <<LabEntry("L1", <<NodeEntry("A", MeasInstShort)>>)>> >> >>
\* fifteen_minute_bin whose "snr" triple has no "median"
DocBinShort ==
    << <<T10, <<LabEntry("L1", <<NodeEntry("A", MeasBinShort)>>)>> >> >>
\* {"10": [{}]}
DocEmptyLabEntry == << <<T10, << <<>> >> >> >>
\* {"10": [{"L1": [{}]}]}
DocEmptyNodeEntry == << <<T10, <<LabEntry("L1", << <<>> >>)>> >> >>
\* {"x": [{"L1": [{"A": ..}]}]}
DocBadStamp ==
    << <<TBad, <<LabEntry("L1", <<NodeEntry("A", MeasFull(1))>>)>> >> >>

\* {"1.5": [{"L1": [{"A": ..}]}], " \v-1_0e-1\u00a0": [{"L2": [{"B": ..}]}],
\*  "\u1680\u06f3\u06f0": [{"L1": [{"C": ..}]}]}
DocFracStamps ==
    << <<TFrac, <<LabEntry("L1", <<NodeEntry("A", MeasFull(1))>>)>> >>,
       <<TSigned, <<LabEntry("L2", <<NodeEntry("B", MeasFull(2))>>)>> >>,
       <<TScript, <<LabEntry("L1", <<NodeEntry("C", MeasFull(1))>>)>> >> >>
\* {"inf": [{"L1": [{"A": ..}]}]}
DocInfStamp ==
    << <<TInf, <<LabEntry("L1", <<NodeEntry("A", MeasFull(1))>>)>> >> >>

\* The bodies a fetch can deliver.
Contents ==
    { NotJsonDoc("empty"), NotJsonDoc("whitespace"), NotJsonDoc("notjson"),
      Json(DocL1AB), Json(DocL1AC), Json(DocTwoStamps), Json(DocNoNodes),
      Json(DocNullPower), Json(DocTwoKeys), Json(DocTwoKeyNode),
      NotJsonDoc("badutf8"), NotJsonDoc("jsonlist"),
      Json(DocNoInst), Json(DocNoBin), Json(DocInstShort), Json(DocBinShort),
      Json(DocEmptyLabEntry), Json(DocEmptyNodeEntry), Json(DocBadStamp),
      Json(DocFracStamps), Json(DocInfStamp) }

\* Directory listings: any sequence of names, repeated or unsorted as it may be.
AJson == <<97, 46, 106, 115, 111, 110>>
BJson == <<98, 46, 106, 115, 111, 110>>
FileNames == {AJson, BJson}
Listings == UNION {[1..n -> FileNames] : n \in 0..MaxFiles}

\* "\n"
LineFeed == 10

\* What "ls" prints for a listing: each name followed by a line feed.
RECURSIVE LsOutput(_)
LsOutput(names) ==
    IF names = <<>> THEN <<>>
    ELSE Head(names) \o <<LineFeed>> \o LsOutput(Tail(names))

\* Other texts the command can print: "a.json", an empty line, "b.json";
\* the names "a\fb.json", "a.json", "b.json", the first with a form feed
\* (12) in it; and a last line that no line feed ends.
\* The decoded texts "ls" can print.
Outputs ==
    {LsOutput(l) : l \in Listings}
        \cup { AJson \o <<LineFeed, LineFeed>> \o BJson \o <<LineFeed>>,
               <<97, 12>> \o BJson \o <<LineFeed>> \o LsOutput(<<AJson, BJson>>),
               AJson \o <<LineFeed>> \o BJson }

\* str.splitlines: a line ends at LF, VT, FF, CR (CR LF counting as one),
\* FS, GS, RS, NEL, LINE SEPARATOR or PARAGRAPH SEPARATOR, or at the end of
\* the text; empty lines are kept, and no line follows the last boundary.
LineBreaks == (10..13) \cup (28..30) \cup {133, 8232, 8233}
BreaksFrom(s, i) == {j \in i..Len(s) : s[j] \in LineBreaks}
AfterBreak(s, j) ==
    IF s[j] = 13 /\ j < Len(s) /\ s[j + 1] = LineFeed THEN j + 2 ELSE j + 1

RECURSIVE LinesFrom(_, _)
LinesFrom(s, i) ==
    IF i > Len(s) THEN <<>>
    ELSE IF BreaksFrom(s, i) = {} THEN <<SubSeq(s, i, Len(s))>>
    ELSE <<SubSeq(s, i, First(BreaksFrom(s, i)) - 1)>>
             \o LinesFrom(s, AfterBreak(s, First(BreaksFrom(s, i))))

\* _stdout.read().decode().splitlines()
splitlines(s) == LinesFrom(s, 1)

\* -------------------------------------------------------------------- state
VARIABLES
    pc,                        \* position of the single ingestion thread
    session,                   \* the paramiko client: "none", "open", "closed"
    json_files,                \* the lines of the listing
    idx,                       \* items of json_files the for loop has taken
    break_ctr,
    decoded_data,              \* body of the file being processed
    optical_signal_data_list,
    lab_names,
    node_names,
    err,                       \* exception that ended the run, "" if none
    edge,                      \* how parse_data returned
    events,                    \* history: remote commands, sleeps, close calls
    fetched,                   \* history: bodies delivered, with their outcome
    before,                    \* history: the model when the current file began
    listing                    \* history: the text "ls" printed, decoded

vars == <<pc, session, json_files, idx, break_ctr, decoded_data,
          optical_signal_data_list, lab_names, node_names, err, edge,
          events, fetched, before, listing>>

Current ==
    [optical_signal_data_list |-> optical_signal_data_list,
     lab_names |-> lab_names, node_names |-> node_names, err |-> ""]

Event(op, arg) == [op |-> op, arg |-> arg]
NoBody == NotJsonDoc("none")

hist == <<events, fetched, before>>
containers == <<optical_signal_data_list, lab_names, node_names>>

Init ==
    /\ pc = "idle"
    /\ session = "none"
    /\ json_files = <<>>
    /\ idx = 0
    /\ break_ctr = 0
    /\ decoded_data = NoBody
    /\ optical_signal_data_list = <<>>
    /\ lab_names = {}
    /\ node_names = <<>>
    /\ err = ""
    /\ edge = "none"
    /\ events = <<>>
    /\ fetched = <<>>
    /\ before = EmptyModel
    /\ listing = <<>>

\* ------------------------------------------------------ connect_to_server
\* Mutant: the failure is printed but sys.exit(1) is missing.
ConnectFailNoExit ==
    /\ pc = "idle"
    /\ pc' = "list"
    /\ events' = Append(events, Event("connect_failed", 0))
    /\ UNCHANGED <<listing, session, json_files, idx, break_ctr, decoded_data,
                   containers, err, edge, fetched, before>>

\* client.connect raises: "Connection failed", sys.exit(1).
ConnectFail ==
    /\ pc = "idle"
    /\ pc' = "exited"
    /\ err' = "SystemExit"
    /\ events' = Append(events, Event("connect_failed", 0))
    /\ UNCHANGED <<listing, session, json_files, idx, break_ctr, decoded_data,
                   containers, edge, fetched, before>>

\* client.connect succeeds, the echo command raises: sys.exit(1) as well.
EchoFail ==
    /\ pc = "idle"
    /\ pc' = "exited"
    /\ session' = "open"
    /\ err' = "SystemExit"
    /\ events' = Append(Append(events, Event("connect", 0)), Event("echo_failed", 0))
    /\ UNCHANGED <<listing, json_files, idx, break_ctr, decoded_data, containers, edge,
                   fetched, before>>

ConnectOK ==
    /\ pc = "idle"
    /\ pc' = "list"
    /\ session' = "open"
    /\ events' = Append(Append(events, Event("connect", 0)), Event("echo", 0))
    /\ UNCHANGED <<listing, json_files, idx, break_ctr, decoded_data, containers, err,
                   edge, fetched, before>>

\* ------------------------------------------------------------- parse_data
\* exec_command("cd .. && ls") outside any try: an SSHException propagates
\* out of parse_data and main.
ListFail ==
    /\ pc = "list"
    /\ pc' = "crashed"
    /\ err' = "SSHException"
    /\ events' = Append(events, Event("ls_failed", 0))
    /\ UNCHANGED <<listing, session, json_files, idx, break_ctr, decoded_data,
                   containers, edge, fetched, before>>

\* "ls" printed bytes that are not UTF-8: .decode() on line 82 raises
\* UnicodeDecodeError, outside any try; nothing is listed or fetched.
ListUndecodable ==
    /\ pc = "list"
    /\ pc' = "crashed"
    /\ err' = "UnicodeDecodeError"
    /\ events' = Append(events, Event("ls", 0))
    /\ UNCHANGED <<listing, session, json_files, idx, break_ctr, decoded_data,
                   containers, edge, fetched, before>>

ListOK ==
    /\ pc = "list"
    /\ \E out \in Outputs : /\ listing' = out
                            /\ json_files' = splitlines(out)
    /\ pc' = "loop"
    /\ events' = Append(events, Event("ls", 0))
    /\ UNCHANGED <<session, idx, break_ctr, decoded_data, containers, err,
                   edge, fetched, before>>

\* The for loop has no item left: fall through to the final return.
LoopExhausted ==
    /\ pc = "loop"
    /\ idx = Len(json_files)
    /\ pc' = "return"
    /\ edge' = "complete"
    /\ UNCHANGED <<listing, session, json_files, idx, break_ctr, decoded_data,
                   containers, err, hist>>

\* The loop tests the ceiling at the head of an iteration.
CeilingReached == break_ctr >= BREAK_LEVEL

\* "if break_ctr >= BREAK_LEVEL: break"
LoopBreak ==
    /\ pc = "loop"
    /\ idx < Len(json_files)
    /\ CeilingReached
    /\ idx' = idx + 1
    /\ pc' = "return"
    /\ edge' = "ceiling"
    /\ UNCHANGED <<listing, session, json_files, break_ctr, decoded_data, containers,
                   err, hist>>

\* Mutant: the delay is skipped for the first file of the listing.
LoopSleepNotFirst ==
    /\ pc = "loop"
    /\ idx < Len(json_files)
    /\ ~CeilingReached
    /\ idx' = idx + 1
    /\ break_ctr' = break_ctr + 1
    /\ events' = IF idx = 0 THEN events ELSE Append(events, Event("sleep", 0))
    /\ before' = Current
    /\ pc' = "fetch"
    /\ UNCHANGED <<listing, session, json_files, decoded_data, containers, err,
                   edge, fetched>>

\* "break_ctr += 1; time.sleep(TIME_DELAY)"
LoopSleep ==
    /\ pc = "loop"
    /\ idx < Len(json_files)
    /\ ~CeilingReached
    /\ idx' = idx + 1
    /\ break_ctr' = break_ctr + 1
    /\ events' = Append(events, Event("sleep", 0))
    /\ before' = Current
    /\ pc' = "fetch"
    /\ UNCHANGED <<listing, session, json_files, decoded_data, containers, err, edge,
                   fetched>>

\* Mutant: the SSHException of a fetch is not caught.
FetchSSHExceptionUncaught ==
    /\ pc = "fetch"
    /\ events' = Append(events, Event("cat_failed", idx))
    /\ pc' = "crashed"
    /\ err' = "SSHException"
    /\ UNCHANGED <<listing, session, json_files, idx, break_ctr, decoded_data,
                   containers, edge, fetched, before>>

\* exec_command("cat ..") raises SSHException: "Returning the current optical
\* signal data."
FetchSSHException ==
    /\ pc = "fetch"
    /\ events' = Append(events, Event("cat_failed", idx))
    /\ pc' = "return"
    /\ edge' = "transport"
    /\ UNCHANGED <<listing, session, json_files, idx, break_ctr, decoded_data,
                   containers, err, fetched, before>>

Fetched(body, outcome) ==
    [pos |-> idx, file |-> json_files[idx], body |-> body, outcome |-> outcome]

\* The bytes arrive but are not UTF-8: .decode() raises UnicodeDecodeError,
\* which "except SSHException" does not catch.
FetchUndecodable ==
    /\ pc = "fetch"
    /\ events' = Append(events, Event("cat", idx))
    /\ fetched' = Append(fetched, Fetched(NotJsonDoc("badutf8"), "UnicodeDecodeError"))
    /\ err' = "UnicodeDecodeError"
    /\ pc' = "crashed"
    /\ UNCHANGED <<listing, session, json_files, idx, break_ctr, decoded_data,
                   containers, edge, before>>

FetchOK ==
    /\ pc = "fetch"
    /\ \E body \in Contents \ {NotJsonDoc("badutf8")} :
          /\ decoded_data' = body
          /\ fetched' = Append(fetched, Fetched(body, "pending"))
    /\ events' = Append(events, Event("cat", idx))
    /\ pc' = "parse"
    /\ UNCHANGED <<listing, session, json_files, idx, break_ctr, containers, err, edge,
                   before>>

SetOutcome(outcome) == [fetched EXCEPT ![Len(fetched)].outcome = outcome]

\* Mutant: a blank file ends the loop ("break" for "continue").
SkipEmptyBreak ==
    /\ pc = "parse"
    /\ decoded_data.raw \in {"empty", "whitespace"}
    /\ fetched' = [fetched EXCEPT ![Len(fetched)].outcome = "empty"]
    /\ pc' = "return"
    /\ edge' = "complete"
    /\ UNCHANGED <<listing, session, json_files, idx, break_ctr, decoded_data,
                   containers, err, events, before>>

\* "if not decoded_data.strip(): continue"
IsBlank(body) == body.raw \in {"empty", "whitespace"}

SkipEmpty ==
    /\ pc = "parse"
    /\ IsBlank(decoded_data)
    /\ fetched' = SetOutcome("empty")
    /\ pc' = "loop"
    /\ UNCHANGED <<listing, session, json_files, idx, break_ctr, decoded_data,
                   containers, err, edge, events, before>>

\* json.loads raises JSONDecodeError: "Skipping and continuing to next file."
SkipJSONDecodeError ==
    /\ pc = "parse"
    /\ decoded_data.raw = "notjson"
    /\ fetched' = SetOutcome("JSONDecodeError")
    /\ pc' = "loop"
    /\ UNCHANGED <<listing, session, json_files, idx, break_ctr, decoded_data,
                   containers, err, edge, events, before>>

\* json.loads returns a list: data.items() raises AttributeError.
ParseNotMapping ==
    /\ pc = "parse"
    /\ decoded_data.raw = "jsonlist"
    /\ fetched' = SetOutcome("AttributeError")
    /\ err' = "AttributeError"
    /\ pc' = "crashed"
    /\ UNCHANGED <<listing, session, json_files, idx, break_ctr, decoded_data,
                   containers, edge, events, before>>

\* Lines 132-192 on a decoded mapping.
ParseFile(m, data) == ItemLoop(m, data, 1)

\* The loops over a decoded document: either they run to the end, or an
\* exception leaves parse_data with the containers as the loops left them.
ParseAndMerge ==
    /\ pc = "parse"
    /\ decoded_data.raw = "json"
    /\ LET m == ParseFile(Current, decoded_data.doc) IN
          /\ optical_signal_data_list' = m.optical_signal_data_list
          /\ lab_names' = m.lab_names
          /\ node_names' = m.node_names
          /\ err' = m.err
          /\ fetched' = SetOutcome(IF m.err = "" THEN "merged" ELSE m.err)
          /\ pc' = IF m.err = "" THEN "loop" ELSE "crashed"
    /\ UNCHANGED <<listing, session, json_files, idx, break_ctr, decoded_data, edge,
                   events, before>>

\* ------------------------------------------------------------------- main
\* parse_data returned: "client.close()", then the triple is returned.
Close ==
    /\ pc = "return"
    /\ session' = "closed"
    /\ events' = Append(events, Event("close", 0))
    /\ pc' = "done"
    /\ UNCHANGED <<listing, json_files, idx, break_ctr, decoded_data, containers, err,
                   edge, fetched, before>>

Next ==
    \/ ConnectFail
    \/ EchoFail
    \/ ConnectOK
    \/ ListFail
    \/ ListUndecodable
    \/ ListOK
    \/ LoopExhausted
    \/ LoopBreak
    \/ LoopSleep
    \/ FetchSSHException
    \/ FetchUndecodable
    \/ FetchOK
    \/ SkipEmpty
    \/ SkipJSONDecodeError
    \/ ParseNotMapping
    \/ ParseAndMerge
    \/ Close

Spec == Init /\ [][Next]_vars

\* The run has ended, one way or another.
Ended == pc \in {"done", "exited", "crashed"}

\* ------------------------------------------------------ reading the history
Count(op) == Cardinality({i \in DOMAIN events : events[i].op = op})

\* close() calls so far
Closes == Count("close")

\* per-file fetch commands issued so far, failed ones included
Fetches == Count("cat") + Count("cat_failed")

Bodies == [i \in DOMAIN fetched |-> fetched[i].body]

\* The names "ls" printed, one to a line: the pieces of its text that a line
\* feed ends, and a last piece that nothing ends.
FeedsFrom(s, i) == {j \in i..Len(s) : s[j] = LineFeed}
RECURSIVE NamesFrom(_, _)
NameAt(s, i, feeds) ==
    IF feeds = {} THEN <<SubSeq(s, i, Len(s))>>
    ELSE <<SubSeq(s, i, First(feeds) - 1)>> \o NamesFrom(s, First(feeds) + 1)
NamesFrom(s, i) ==
    IF i > Len(s) THEN <<>> ELSE NameAt(s, i, FeedsFrom(s, i))
Listed == NamesFrom(listing, 1)
ListedCount == Len(Listed)

\* The file fetched at position k is the k-th name of the listing.
FetchedAsListed ==
    \A k \in DOMAIN fetched :
        /\ fetched[k].pos = k
        /\ k <= ListedCount
        /\ fetched[k].file = Listed[k]

\* What one pass of the loop body makes of a delivered body.
ProcessBody(m, body) ==
    IF IsBlank(body) \/ body.raw = "notjson" THEN m
    ELSE IF body.raw = "json" THEN ParseFile(m, body.doc)
    ELSE Raise(m, "raised")

\* The model obtained by processing the given bodies, in order, from scratch.
RECURSIVE ModelOf(_)
ModelOf(bodies) ==
    IF Len(bodies) = 0 THEN EmptyModel
    ELSE ProcessBody(ModelOf(SubSeq(bodies, 1, Len(bodies) - 1)),
                     bodies[Len(bodies)])

\* Lab entries of the files merged so far: <<file, item, entry>> positions.
MergedEntries ==
    UNION {UNION {{<<i, k, j>> : j \in DOMAIN fetched[i].body.doc[k][2]}
                  : k \in DOMAIN fetched[i].body.doc}
           : i \in {x \in DOMAIN fetched : fetched[x].outcome = "merged"}}
EntryAt(p) == fetched[p[1]].body.doc[p[2]][2][p[3]]
EntriesOf(L) == {p \in MergedEntries : FirstKey(EntryAt(p)) = L}

\* Node names occurring in the merged lab entries of lab L.
NodesOccurring(L) ==
    UNION {{FirstKey(FirstValue(EntryAt(p))[n]) : n \in DOMAIN FirstValue(EntryAt(p))}
           : p \in EntriesOf(L)}

LabsOccurring == {FirstKey(EntryAt(p)) : p \in MergedEntries}

LabObjs(L) ==
    {x \in DOMAIN optical_signal_data_list : optical_signal_data_list[x].lab_name = L}

\* ------------------------------------------------------------------ claims

\* connect_to_server returned a client to main.
Connected == Count("echo") = 1

\* C1: in every run in which connect succeeded, close has been called exactly
\* once by the time the run has ended, whichever way it ended.
C1_CloseOnEveryExit == (Ended /\ Connected) => Closes = 1

\* C1 (case): a run that connected and then ended on an error raised while
\* a file was being merged.
C1_ErrorExitAfterConnect ==
    /\ Ended /\ Connected
    /\ err = "KeyError"
    /\ lab_names # {}

\* C2: each of the three ways parse_data returns (listing exhausted, ceiling
\* reached, SSHException on a per-file fetch) leads to exactly one close(),
\* the close is the last thing the session is used for, and no run closes
\* twice.
C2_ClosedOnceOnEveryEdge ==
    /\ Closes <= 1
    /\ edge # "none" => /\ pc \in {"return", "done"}
                        /\ err = ""
                        /\ pc = "done" <=> Closes = 1
    /\ pc = "done" => /\ edge \in {"complete", "ceiling", "transport"}
                      /\ session = "closed"
    /\ \A i \in DOMAIN events : events[i].op = "close" => i = Len(events)
    /\ Count("cat_failed") > 0 => edge = "transport"

\* C2 (case): closed after an SSHException that followed a merged file.
C2_ClosedAfterTransportError ==
    /\ pc = "done"
    /\ edge = "transport"
    /\ Closes = 1
    /\ \E i \in DOMAIN fetched : fetched[i].outcome = "merged"

\* C3: when the processing of a file has ended in a failure or a skip, the
\* three containers are what they were before the file was fetched.
C3_WholeFileOrNothing ==
    \A i \in DOMAIN fetched :
        (i = Len(fetched) /\ fetched[i].outcome \notin {"pending", "merged"})
            => Current = before

\* C3 (case): a file failed after some of its entries were merged.
C3_PartlyMerged ==
    /\ fetched # <<>>
    /\ fetched[Len(fetched)].outcome \notin {"pending", "merged"}
    /\ lab_names # before.lab_names
    /\ DOMAIN node_names # lab_names

\* Bodies that decode as JSON but lack a sub-section or a required field.
WrongShape ==
    {Json(DocNoInst), Json(DocNoBin), Json(DocInstShort), Json(DocBinShort)}

\* C4: a file of the wrong shape is skipped as a whole: the run does not end
\* on it and the loop goes on.
C4_WrongShapeSkipped ==
    \A i \in DOMAIN fetched :
        fetched[i].body \in WrongShape
            => /\ pc # "crashed"
               /\ err = ""
               /\ fetched[i].outcome # "merged"

\* C5: a body that cannot be decoded is skipped: no exception leaves the
\* loop body, and the containers are unchanged.
C5_UndecodableSkipped ==
    \A i \in DOMAIN fetched :
        fetched[i].body.raw \in {"badutf8", "notjson"}
            => /\ fetched[i].outcome \in {"pending", "JSONDecodeError"}
               /\ (i = Len(fetched) => err = "" /\ Current = before)

\* C5 (case): invalid JSON text was skipped and a later file merged as if
\* the bad one had not been there.
C5_GoodFileAfterBadJson ==
    /\ Len(fetched) = 2
    /\ fetched[1].outcome = "JSONDecodeError"
    /\ fetched[2].outcome = "merged"
    /\ Current = ModelOf(<<fetched[2].body>>)

\* C6: when a fetch raised SSHException, it was the fetch of the i-th name
\* of the listing, it is the last command before close, the files read
\* are the names 1..i-1 of the listing, and the model returned is the one
\* those files produce.
C6_TransportErrorReturnsPartial ==
    edge = "transport" =>
        /\ Len(fetched) = idx - 1
        /\ FetchedAsListed
        /\ idx <= ListedCount /\ json_files[idx] = Listed[idx]
        /\ \A k \in DOMAIN events :
              events[k].op = "cat_failed" =>
                  /\ events[k].arg = idx
                  /\ \A n \in DOMAIN events : n > k => events[n].op = "close"
        /\ err = ""
        /\ Current = ModelOf(Bodies)

\* C6 (case): the second fetch failed after the first file was merged.
C6_SecondFetchFailed ==
    /\ pc = "done"
    /\ edge = "transport"
    /\ idx = 2
    /\ Len(json_files) > 2
    /\ fetched[1].outcome = "merged"
    /\ lab_names # {}

\* C7: an SSHException from any command after connect, the listing included,
\* does not end the run with an unhandled error.
C7_TransportErrorNeverFatal ==
    (Count("ls_failed") + Count("cat_failed") > 0) => pc \in {"return", "done"}

\* C8: a run stopped by the ceiling has fetched exactly BREAK_LEVEL files of
\* a longer listing, the first BREAK_LEVEL positions, returns the model they
\* produce, and ends without error; no run fetches more than BREAK_LEVEL
\* files, and a longer listing is never processed to its end.
C8_CeilingStopsAfterK ==
    /\ Fetches <= BREAK_LEVEL
    /\ edge = "complete" => ListedCount <= BREAK_LEVEL
    /\ edge = "ceiling" =>
          /\ ListedCount > BREAK_LEVEL
          /\ Count("cat") = BREAK_LEVEL
          /\ Len(fetched) = BREAK_LEVEL
          /\ FetchedAsListed
          /\ Current = ModelOf(Bodies)
          /\ err = ""
          /\ pc \in {"return", "done"}

\* C8 (case): the ceiling stopped a run whose counted files include a skipped
\* one and a merged one.
C8_StoppedByCeiling ==
    /\ pc = "done"
    /\ edge = "ceiling"
    /\ \E i \in DOMAIN fetched : fetched[i].outcome = "empty"
    /\ \E i \in DOMAIN fetched : fetched[i].outcome = "merged"

\* C9: the list holds at most one Lab per name and lab_names is the set of
\* the names in the list; while no exception has been raised, every lab named
\* in a merged entry has its one Lab, holding one snapshot per merged entry.
C9_OneLabPerName ==
    /\ \A x, y \in DOMAIN optical_signal_data_list :
          optical_signal_data_list[x].lab_name = optical_signal_data_list[y].lab_name
              => x = y
    /\ lab_names = {optical_signal_data_list[x].lab_name :
                       x \in DOMAIN optical_signal_data_list}
    /\ err = "" =>
          /\ lab_names = LabsOccurring
          /\ \A L \in lab_names :
                \A x \in LabObjs(L) :
                    Len(optical_signal_data_list[x].timestamp_list)
                        = Cardinality(EntriesOf(L))

\* C9 (case): two merged documents name L1, which has one Lab, two snapshots.
C9_TwoDocumentsOneLab ==
    /\ Len(fetched) = 2
    /\ fetched[1].outcome = "merged" /\ fetched[2].outcome = "merged"
    /\ EntriesOf("L1") = {<<1, 1, 1>>, <<2, 1, 1>>}
    /\ Cardinality(LabObjs("L1")) = 1
    /\ \A x \in LabObjs("L1") : Len(optical_signal_data_list[x].timestamp_list) = 2

\* C10: while no exception has been raised, every lab of a merged entry has
\* a registry, which is the set of the node names occurring in the lab's
\* merged entries.
C10_RegistryIsNodeSet ==
    err = "" =>
        \A L \in LabsOccurring :
            /\ L \in DOMAIN node_names
            /\ node_names[L] = NodesOccurring(L)

\* C10 (case): nodes A, B, A, C of lab L1 in two documents give {A, B, C}.
C10_RepeatedNode ==
    /\ Bodies = <<Json(DocL1AB), Json(DocL1AC)>>
    /\ fetched[2].outcome = "merged"
    /\ node_names["L1"] = {"A", "B", "C"}


\* C11: a blank body (empty or whitespace only) is skipped: the containers
\* stay what they were before the file, no exception is raised, and the loop
\* goes on, so that a run whose last delivered body is blank has returned
\* only because the listing was exhausted, the ceiling was reached, or the
\* fetch of the next file raised SSHException.
C11_BlankFileSkipped ==
    \A i \in DOMAIN fetched :
        IsBlank(fetched[i].body) =>
            /\ fetched[i].outcome \in {"pending", "empty"}
            /\ i = Len(fetched) =>
                  /\ err = ""
                  /\ pc # "crashed"
                  /\ Current = before
                  /\ edge = "complete" => i = Len(json_files)
                  /\ edge = "ceiling" => i = BREAK_LEVEL
                  /\ edge = "transport" => Fetches = i + 1

\* C11 (case): a whitespace-only file was skipped with the model unchanged
\* and the next file of the listing was fetched and merged.
C11_NextFileAfterBlank ==
    /\ Len(fetched) = 2
    /\ fetched[1].body = NotJsonDoc("whitespace")
    /\ fetched[1].outcome = "empty"
    /\ fetched[2].outcome = "merged"
    /\ before = EmptyModel
    /\ lab_names # {}


\* Positions <<file, item, entry>> in file-processing order, then document
\* traversal order.
Earlier(p, q) ==
    \/ p[1] < q[1]
    \/ p[1] = q[1] /\ p[2] < q[2]
    \/ p[1] = q[1] /\ p[2] = q[2] /\ p[3] < q[3]

\* Place of occurrence p among the occurrences S, counted from 1.
Rank(p, S) == Cardinality({q \in S : Earlier(q, p)}) + 1

\* The epoch time the timestamp keys of the documents denote: 10 s, 20 s,
\* 1.5 s, 1 s before the epoch, and 30 s.
Epoch(neg, whole, micro) == [neg |-> neg, whole |-> whole, micro |-> micro]
EpochOf(stamp) ==
    CASE stamp = T10 -> Epoch(FALSE, <<1, 0>>, 0)
      [] stamp = T20 -> Epoch(FALSE, <<2, 0>>, 0)
      [] stamp = TFrac -> Epoch(FALSE, <<1>>, 500000)
      [] stamp = TSigned -> Epoch(TRUE, <<1>>, 0)
      [] stamp = TScript -> Epoch(FALSE, <<3, 0>>, 0)

StampAt(p) == fetched[p[1]].body.doc[p[2]][1]

\* C12: while no exception has been raised, the snapshots of each lab are
\* its merged lab entries, one snapshot per entry, in file-processing order
\* and then document order, unsorted and unmerged; each snapshot has the
\* epoch of its entry's timestamp key and the entry's nodes in document
\* order, with the names and the instantaneous values of the input.
C12_SnapshotsInArrivalOrder ==
    err = "" =>
        \A L \in lab_names :
            \A x \in LabObjs(L) :
                LET snaps == optical_signal_data_list[x].timestamp_list IN
                  /\ Len(snaps) = Cardinality(EntriesOf(L))
                  /\ \A p \in EntriesOf(L) :
                        LET snap == snaps[Rank(p, EntriesOf(L))]
                            nodes == FirstValue(EntryAt(p))
                        IN /\ snap.timestamp = EpochOf(StampAt(p))
                           /\ Len(snap.node_data_list) = Len(nodes)
                           /\ \A n \in DOMAIN nodes :
                                 /\ snap.node_data_list[n].node_name = FirstKey(nodes[n])
                                 /\ \A f \in Fields :
                                       snap.node_data_list[n].measurements.instantaneous[f]
                                           = FirstValue(nodes[n])["instantaneous"][f]

\* C12 (case): a document with stamps 20 then 10 followed by a single-entry
\* document (10, L1, A): L2 keeps 20 before 10, and L1 has two snapshots at
\* 10, the second holding the one reading A of that document.
C12_UnsortedAndRepeated ==
    /\ Bodies = <<Json(DocTwoStamps), Json(DocNullPower)>>
    /\ fetched[2].outcome = "merged"
    /\ \A x \in LabObjs("L2") :
          /\ Len(optical_signal_data_list[x].timestamp_list) = 2
          /\ optical_signal_data_list[x].timestamp_list[1].timestamp = EpochOf(T20)
          /\ optical_signal_data_list[x].timestamp_list[2].timestamp = EpochOf(T10)
    /\ \A x \in LabObjs("L1") :
          /\ Len(optical_signal_data_list[x].timestamp_list) = 2
          /\ optical_signal_data_list[x].timestamp_list[1].timestamp = EpochOf(T10)
          /\ optical_signal_data_list[x].timestamp_list[2].timestamp = EpochOf(T10)
          /\ Len(optical_signal_data_list[x].timestamp_list[2].node_data_list) = 1
          /\ optical_signal_data_list[x].timestamp_list[2].node_data_list[1].node_name = "A"
    /\ Cardinality(LabObjs("L1")) = 1 /\ Cardinality(LabObjs("L2")) = 1


\* connect_to_server caught an exception of client.connect or of its echo.
ConnectFailed == Count("connect_failed") + Count("echo_failed") > 0

\* C13: when connecting fails the run is over at once, in failure: no
\* listing, delay or fetch is ever executed, parse_data is never entered and
\* main returns no model; a model is returned only by a run that connected.
C13_ConnectFailureIsFatal ==
    /\ ConnectFailed =>
          /\ pc = "exited"
          /\ err = "SystemExit"
          /\ Count("ls") + Count("ls_failed") + Count("sleep") + Fetches = 0
          /\ edge = "none"
          /\ Current = EmptyModel
    /\ pc \in {"return", "done"} => Connected /\ ~ConnectFailed

\* C13 (case): client.connect raised and the process exited.
C13_ExitedOnConnectFailure ==
    /\ pc = "exited"
    /\ Count("connect_failed") = 1
    /\ session = "none"


\* Bodies whose one node entry has an instantaneous metric that is null
\* (DocNullPower) or absent (DocInstShort).
MetricMissing == {Json(DocNullPower), Json(DocInstShort)}

\* C14: a node entry with a null or an absent instantaneous metric is
\* ingested without failure: its file is merged and no exception is raised.
C14_MissingMetricTolerated ==
    \A i \in DOMAIN fetched :
        fetched[i].body \in MetricMissing =>
            /\ fetched[i].outcome \in {"pending", "merged"}
            /\ i = Len(fetched) => err = "" /\ pc # "crashed"

\* C14 (case): a null power was ingested; the reading carries the null for
\* power and the input values for the other metrics.
C14_NullPowerKept ==
    /\ Bodies = <<Json(DocNullPower)>>
    /\ fetched[1].outcome = "merged"
    /\ LET reading == optical_signal_data_list[1].timestamp_list[1].node_data_list[1]
       IN /\ reading.measurements.instantaneous["power"] = Null
          /\ \A f \in Fields \ {"power"} :
                reading.measurements.instantaneous[f] = Num(3)


\* Bodies with a lab entry or a node entry of no key or of two keys.
KeyCountWrong ==
    {Json(DocTwoKeys), Json(DocTwoKeyNode), Json(DocEmptyLabEntry),
     Json(DocEmptyNodeEntry)}

\* C15: a file with an entry of zero keys or of several keys is rejected and
\* skipped: it is never merged, no exception ends the run on it, and the
\* containers stay what they were before the file.
C15_KeyCountChecked ==
    \A i \in DOMAIN fetched :
        fetched[i].body \in KeyCountWrong =>
            /\ fetched[i].outcome # "merged"
            /\ i = Len(fetched) =>
                  /\ err = ""
                  /\ pc # "crashed"
                  /\ fetched[i].outcome # "pending" => Current = before

\* C15 (case): a lab entry {"L1": .., "L2": ..} was merged under its first
\* key; nothing of L2 is in the model.
C15_FirstKeyTaken ==
    /\ Bodies = <<Json(DocTwoKeys)>>
    /\ fetched[1].outcome = "merged"
    /\ lab_names = {"L1"}
    /\ DOMAIN node_names = {"L1"}


IsFetch(e) == e.op \in {"cat", "cat_failed"}

\* C16: every per-file fetch command, the first one included, comes directly
\* after a delay of its own: the event before a fetch is a sleep, so two
\* fetches always have a delay between them, and there is one delay per
\* fetch (plus the one just slept when the fetch is about to be issued).
C16_DelayBeforeEveryFetch ==
    /\ \A k \in DOMAIN events :
          IsFetch(events[k]) => k > 1 /\ events[k - 1].op = "sleep"
    /\ Count("sleep") = Fetches + (IF pc = "fetch" THEN 1 ELSE 0)

\* C16 (case): two files were fetched, each after its own delay.
C16_TwoFetchesTwoDelays ==
    /\ Count("cat") = 2
    /\ Count("sleep") = 2
    /\ \E k \in DOMAIN events :
          /\ k + 3 \in DOMAIN events
          /\ events[k].op = "sleep" /\ events[k + 1].op = "cat"
          /\ events[k + 2].op = "sleep" /\ events[k + 3].op = "cat"


Finished == {"merged", "empty", "JSONDecodeError"}

\* C17: the files fetched are the names of the listing at the positions 1,
\* 2, 3, .., each position once at most and none skipped, whatever the
\* outcome of a fetch; and a fetch is issued only when every file delivered
\* before it has been merged or skipped.
C17_FetchesFollowListing ==
    /\ Fetches <= ListedCount
    /\ \A k \in DOMAIN events :
          IsFetch(events[k]) =>
              events[k].arg = Cardinality({j \in 1..k : IsFetch(events[j])})
    /\ FetchedAsListed
    /\ \A i \in DOMAIN fetched :
          i < Len(fetched) => fetched[i].outcome \in Finished
    /\ pc = "fetch" => \A i \in DOMAIN fetched : fetched[i].outcome \in Finished

\* C17 (case): "ls" printed b, a, b; b and then a were fetched, the first of
\* them skipped as invalid JSON and not fetched again.
C17_UnsortedListingFollowed ==
    /\ listing = LsOutput(<<BJson, AJson, BJson>>)
    /\ Len(fetched) = 2
    /\ fetched[1].file = BJson /\ fetched[1].outcome = "JSONDecodeError"
    /\ fetched[2].file = AJson /\ fetched[2].outcome = "merged"
    /\ pc = "done"


\* visualize_data.main: sorted_node_names has the keys of node_names and is
\* indexed by every lab name; a lab name that is no key raises KeyError.
DashboardKeyError == \E lab_name \in lab_names : lab_name \notin DOMAIN node_names

\* C18: in every model main returns, node_names has an entry for exactly the
\* names in lab_names, so that indexing it by a lab name never fails.
C18_RegistryForEveryLab ==
    pc = "done" => /\ DOMAIN node_names = lab_names
                   /\ ~DashboardKeyError

\* C18 (case): a returned model with two labs, each with its registry.
C18_TwoLabsTwoRegistries ==
    /\ pc = "done"
    /\ lab_names = {"L1", "L2"}
    /\ DOMAIN node_names = {"L1", "L2"}

====
